---- MODULE Spec2Model ----
(***************************************************************************)
(* Ore and ice arbitrage with limit orders (Example 11): the order         *)
(* matchers, the spread evaluator, attempt_opportunity, find_opportunities *)
(* and clean_opportunities of the notebook, as state machines.             *)
(*                                                                         *)
(* Arithmetic.  The notebook computes in floating point; the model is      *)
(* exact.  Rates (tax_rate, station_tax, broker_fee) are integers in       *)
(* 1/RateScale, efficiency in 1/EffScale, volume_limit in 1/VolScale.      *)
(* Volumes of the fills held inside attempt_opportunity are in 1/VolScale  *)
(* units (a limit amount dailyVolume * volume_limit is fractional), sold   *)
(* values in 1/VolScale ISK, gross and cost in 1/(VolScale*RateScale) ISK. *)
(***************************************************************************)
EXTENDS Integers, Sequences, FiniteSets, TLC

VARIABLES
    \* one matcher exercised on its own list
    m_list, m_side, m_volume, m_result, m_prev, m_calls,
    \* inputs of find_opportunities / attempt_opportunity
    order_book, type_map, market_summary, config,
    \* position of find_opportunities
    run, snap_idx, type_idx, opportunities, first_run, calls,
    \* locals of attempt_opportunity
    pc, sell_order_list, buy_order_map, limit_order_max, spread_data,
    all_buy_orders, all_sell_orders, gross, cost,
    current_gross, current_cost, bought, sell_orders, rounds, committed, exit,
    opp,
    \* clean_opportunities and the aggregate of the cleaned list
    c_opps, c_result, c_pc, c_total

match_vars == <<m_list, m_side, m_volume, m_result, m_prev, m_calls>>
input_vars == <<order_book, type_map, market_summary, config>>
scan_vars == <<run, snap_idx, type_idx, opportunities, first_run, calls>>
attempt_vars == <<pc, sell_order_list, buy_order_map, limit_order_max, spread_data,
                  all_buy_orders, all_sell_orders, gross, cost,
                  current_gross, current_cost, bought, sell_orders, rounds, committed,
                  exit, opp>>
clean_vars == <<c_opps, c_result, c_pc, c_total>>
vars == <<match_vars, input_vars, scan_vars, attempt_vars, clean_vars>>

----------------------------------------------------------------------------
(* Bounds of the model *)

MaxOrders == 2      \* orders per list handed to a matcher
MaxVol == 2         \* volume of an order in the book
MaxMinVol == 2      \* min_volume of an order
MaxCalls == 2       \* matcher calls made on one list

(* Units of the fixed-point arithmetic *)
RateScale == 1000
EffScale == 100000
VolScale == 100

Min(a, b) == IF a <= b THEN a ELSE b

\* F of the value v, with v worked out once
Apply(F(_), v) == CHOOSE r \in {F(x) : x \in {v}} : TRUE

\* None, and a value that is not None
None == <<>>
Some(x) == <<x>>

----------------------------------------------------------------------------
(* Orders.  A row of the order book DataFrame. *)

StationId == "station"
Locations == {"station", "remote", "citadel"}

Order(t, loc, rng, isbuy, p, v, mv) ==
    [type_id |-> t, location_id |-> loc, order_range |-> rng, buy |-> isbuy,
     price |-> p, volume |-> v, min_volume |-> mv]

\* TradingUtil.check_range: the external range checker.  "in" and "out" are
\* its two answers, "raise" the exception for a location it cannot resolve.
check_range(sell_location_id, location_id, order_range) ==
    IF location_id = "citadel" THEN "raise"
    ELSE IF location_id = sell_location_id \/ order_range = "region" THEN "in"
    ELSE "out"

SumVolume(fills) ==
    LET RECURSIVE S(_)
        S(i) == IF i = 0 THEN 0 ELSE fills[i].volume + S(i - 1)
    IN S(Len(fills))

\* np.sum([ x['price'] * x['volume'] for x in fills ])
SumValue(fills) ==
    LET RECURSIVE S(_)
        S(i) == IF i = 0 THEN 0 ELSE fills[i].price * fills[i].volume + S(i - 1)
    IN S(Len(fills))

----------------------------------------------------------------------------
(* The order matchers.  Each returns the fills and the order list as the   *)
(* walk left it: the code decrements next_order['volume'] in place.        *)

\* a mutant of buy_takes: an order without volume left is bought into
buy_takes_empty(buy_volume, next_order) == buy_volume >= next_order.min_volume

\* line 240: the order can be bought into
buy_takes(buy_volume, next_order) ==
    buy_volume >= next_order.min_volume /\ next_order.volume > 0

\* a mutant of sell_takes: the exception of the range check counted as a pass
sell_takes_raise_passes(sell_location_id, sell_volume, next_order) ==
    /\ sell_volume >= next_order.min_volume
    /\ next_order.volume > 0
    /\ check_range(sell_location_id, next_order.location_id, next_order.order_range) # "out"

\* lines 264-267, 274-279: the order can be sold into; an exception of the
\* range check leaves the order alone
sell_takes(sell_location_id, sell_volume, next_order) ==
    /\ sell_volume >= next_order.min_volume
    /\ next_order.volume > 0
    /\ check_range(sell_location_id, next_order.location_id, next_order.order_range) = "in"

\* a mutant of unfilled: the partial fill is returned
unfilled_partial(potential) == potential

\* lines 250-251, 283-284: the end of the list was reached before the volume was 0
unfilled(potential) == <<>>

RECURSIVE buy_walk(_, _, _, _)
buy_walk(i, buy_volume, orders, potential) ==
    IF i > Len(orders) THEN [fills |-> unfilled(potential), orders |-> orders]
    ELSE LET next_order == orders[i]
             take == buy_takes(buy_volume, next_order)
             amount == Min(buy_volume, next_order.volume)
             vol2 == IF take THEN buy_volume - amount ELSE buy_volume
             ord2 == IF take THEN [orders EXCEPT ![i].volume = @ - amount] ELSE orders
             pot2 == IF take
                     THEN Append(potential, [price |-> next_order.price, volume |-> amount,
                                             market |-> TRUE])
                     ELSE potential
         IN IF vol2 = 0 THEN [fills |-> pot2, orders |-> ord2]
            ELSE Apply(LAMBDA w : buy_walk(i + 1, w.volume, w.orders, w.potential),
                       [volume |-> vol2, orders |-> ord2, potential |-> pot2])

\* a mutant of attempt_buy_type_list: the orders bought into keep their volume
attempt_buy_unconsumed(buy_volume, orders) ==
    [fills |-> buy_walk(1, buy_volume, orders, <<>>).fills, orders |-> orders]

attempt_buy_type_list(buy_volume, orders) == buy_walk(1, buy_volume, orders, <<>>)

RECURSIVE sell_walk(_, _, _, _, _)
sell_walk(i, sell_location_id, sell_volume, orders, potential) ==
    IF i > Len(orders) THEN [fills |-> unfilled(potential), orders |-> orders]
    ELSE LET next_order == orders[i]
             take == sell_takes(sell_location_id, sell_volume, next_order)
             amount == Min(sell_volume, next_order.volume)
             vol2 == IF take THEN sell_volume - amount ELSE sell_volume
             ord2 == IF take THEN [orders EXCEPT ![i].volume = @ - amount] ELSE orders
             pot2 == IF take
                     THEN Append(potential, [price |-> next_order.price, volume |-> amount,
                                             market |-> TRUE])
                     ELSE potential
         IN IF vol2 = 0 THEN [fills |-> pot2, orders |-> ord2]
            ELSE Apply(LAMBDA w : sell_walk(i + 1, sell_location_id,
                                            w.volume, w.orders, w.potential),
                       [volume |-> vol2, orders |-> ord2, potential |-> pot2])

\* a mutant of attempt_sell_type_list: a sale that fails gives the orders
\* their volume back
attempt_sell_restored(sell_location_id, sell_volume, orders) ==
    LET w == sell_walk(1, sell_location_id, sell_volume, orders, <<>>)
    IN IF w.fills = <<>> THEN [fills |-> <<>>, orders |-> orders] ELSE w

attempt_sell_type_list(sell_location_id, sell_volume, orders) ==
    sell_walk(1, sell_location_id, sell_volume, orders, <<>>)

----------------------------------------------------------------------------
(* Convenience functions of the notebook *)

\* by_side.iterrows(): every row comes out as a Series of its own, so the
\* list holds copies and the snapshot keeps its volumes
iterrows(rows) == rows

\* a mutant of stored_volume: the list holds the rows of the snapshot themselves
stored_volume_shared(row_volume, list_volume) == list_volume

\* lines 245, 272: next_order['volume'] -= amount writes to the Series that
\* iterrows made for the list; the row of the DataFrame keeps its volume
stored_volume(row_volume, list_volume) == row_volume

\* lines 299-303
extract_sell_orders(snapshot, type_id, station_id) ==
    iterrows(SelectSeq(snapshot.rows,
                       LAMBDA o : o.type_id = type_id /\ o.location_id = station_id
                                  /\ o.buy = FALSE))

\* lines 307-310
extract_buy_orders(snapshot, type_id) ==
    iterrows(SelectSeq(snapshot.rows, LAMBDA o : o.type_id = type_id /\ o.buy = TRUE))

\* sorted(..., key=price, reverse=not ascending) of a set of prices
RECURSIVE sorted_prices(_, _)
sorted_prices(prices, ascending) ==
    IF prices = {} THEN <<>>
    ELSE LET first == IF ascending
                      THEN CHOOSE p \in prices : \A q \in prices : p <= q
                      ELSE CHOOSE p \in prices : \A q \in prices : p >= q
         IN <<first>> \o sorted_prices(prices \ {first}, ascending)

\* a mutant of compress_order_list: the volume at a price is that of the
\* first order at it, not the sum
compress_first_volume(order_list, ascending) ==
    LET idx == DOMAIN order_list
        prices == {order_list[i].price : i \in idx}
        at(p) == SelectSeq(order_list, LAMBDA o : o.price = p)
        market == \A i \in idx : order_list[i].market
        keys == sorted_prices(prices, ascending)
    IN [k \in DOMAIN keys |->
            [price |-> keys[k], volume |-> at(keys[k])[1].volume, market |-> market]]

\* a mutant of compress_order_list: the list is sorted low price to high
\* whatever ascending says
compress_always_ascending(order_list, ascending) ==
    LET idx == DOMAIN order_list
        prices == {order_list[i].price : i \in idx}
        at(p) == SelectSeq(order_list, LAMBDA o : o.price = p)
        market == \A i \in idx : order_list[i].market
        keys == sorted_prices(prices, TRUE)
    IN [k \in DOMAIN keys |->
            [price |-> keys[k], volume |-> SumVolume(at(keys[k])), market |-> market]]

\* lines 316-326
compress_order_list(order_list, ascending) ==
    LET idx == DOMAIN order_list
        prices == {order_list[i].price : i \in idx}
        at(p) == SelectSeq(order_list, LAMBDA o : o.price = p)
        market == \A i \in idx : order_list[i].market
        keys == sorted_prices(prices, ascending)
    IN [k \in DOMAIN keys |->
            [price |-> keys[k], volume |-> SumVolume(at(keys[k])), market |-> market]]

----------------------------------------------------------------------------
(* The spread evaluator.  A ratio is a record [num, den] with den > 0. *)

Ratio(n, d) == [num |-> n, den |-> d]

RatioGT(a, b) == a.num * b.den > b.num * a.den

neutral_spread == [spread_return |-> Ratio(0, 1), best_bid |-> None, best_ask |-> None]

\* a mutant of first_bid: the first buy order is the best bid, in range or not
first_bid_unchecked(buy_orders, station_id, i) ==
    IF Len(buy_orders) = 0 THEN None ELSE Some(buy_orders[1].price)

\* lines 357-367: the price of the first buy order whose range check answers
\* true; an order whose check raises is passed over
RECURSIVE first_bid(_, _, _)
first_bid(buy_orders, station_id, i) ==
    IF i > Len(buy_orders) THEN None
    ELSE IF check_range(station_id, buy_orders[i].location_id,
                        buy_orders[i].order_range) = "in"
         THEN Some(buy_orders[i].price)
         ELSE first_bid(buy_orders, station_id, i + 1)

\* lines 347-371
spread_return(snapshot, type_id, station_id) ==
    LET sell_orders_ == extract_sell_orders(snapshot, type_id, station_id)
        best_ask == Some(sell_orders_[1].price)
        best_bid == first_bid(extract_buy_orders(snapshot, type_id), station_id, 1)
    IN IF Len(sell_orders_) = 0 THEN neutral_spread
       ELSE IF best_bid = None THEN neutral_spread
       ELSE [spread_return |-> Ratio(best_ask[1] - best_bid[1], best_bid[1]),
             best_bid |-> best_bid, best_ask |-> best_ask]

----------------------------------------------------------------------------
(* attempt_opportunity *)

\* line 401
limit_threshold(cfg) == Ratio(cfg.broker_fee, RateScale - cfg.tax_rate - cfg.broker_fee)

\* a mutant of limit_sells: a spread at the threshold sells by limit order
limit_sells_at_threshold(sr, threshold) == ~RatioGT(threshold, sr)

\* line 448
limit_sells(sr, threshold) == RatioGT(sr, threshold)

\* line 449: int(quantity * efficiency)
sell_volume_of(quantity, cfg) == (quantity * cfg.efficiency) \div EffScale

\* a mutant of limit_budget: the budget an earlier attempt left is kept
limit_budget_kept(mat_type_id, summary, cfg) ==
    IF mat_type_id \in DOMAIN limit_order_max THEN limit_order_max[mat_type_id]
    ELSE summary[mat_type_id] * cfg.volume_limit

\* line 421: dailyVolume * volume_limit, in 1/VolScale units
limit_budget(mat_type_id, summary, cfg) == summary[mat_type_id] * cfg.volume_limit

\* a mutant of limit_amount: the amount is not capped by the budget
limit_amount_uncapped(sell_volume, budget) == sell_volume * VolScale

\* line 453
limit_amount(sell_volume, budget) == Min(sell_volume * VolScale, budget)

\* a mutant of limit_sold: an amount of 0 is recorded as a sale
limit_sold_zero(amount, best_ask) ==
    <<[price |-> best_ask, volume |-> amount, market |-> FALSE]>>

\* lines 454-461: the sale by limit order, empty without an amount
limit_sold(amount, best_ask) ==
    IF amount > 0 THEN <<[price |-> best_ask, volume |-> amount, market |-> FALSE]>>
    ELSE <<>>

\* a mutant of sale_failed: an empty sale does not end the round
sale_failed_never(sold) == FALSE

\* line 465
sale_failed(sold) == Len(sold) = 0

\* a mutant of abandoned: the sales made before the one that failed are kept
abandoned_kept(sales) == sales

\* line 467: sell_orders = []
abandoned(sales) == <<>>

\* a mutant of gross_ratio: the broker fee is not taken off a limit sale
gross_ratio_no_broker(limit_sell, cfg) == RateScale - cfg.tax_rate

\* line 472, in 1/RateScale
gross_ratio(limit_sell, cfg) ==
    IF limit_sell THEN RateScale - cfg.tax_rate - cfg.broker_fee
    ELSE RateScale - cfg.tax_rate

\* a mutant of round_profit: the running totals are tested, not the round
round_profit_running(cur_gross, cur_cost) == gross + cur_gross > cost + cur_cost

\* line 487
round_profit(cur_gross, cur_cost) == cur_gross > cur_cost

\* a mutant of report_test: an attempt that broke even is reported
report_test_even(total_gross, total_cost) == total_gross >= total_cost

\* a mutant of report_test: the last round is tested, not the totals
report_test_last(total_gross, total_cost) == current_gross > current_cost

\* line 498
report_test(total_gross, total_cost) == total_gross > total_cost

\* the fills of a matcher, their volumes in 1/VolScale units
centi(fills) == [i \in DOMAIN fills |-> [fills[i] EXCEPT !.volume = @ * VolScale]]

\* the source type and the snapshot of the attempt in progress
cur_type == type_map[type_idx]
cur_snapshot == order_book[snap_idx]
material_ids(src) == {src.material_map[i].materialTypeID : i \in DOMAIN src.material_map}

\* lines 447-480: the body of the loop over the materials, for material k of
\* the map; st carries the locals the loop changes
sell_one(st, k, cfg) ==
    LET next_mat == cur_type.material_map[k]
        next_mat_id == next_mat.materialTypeID
        sr_data == spread_data[next_mat_id]
        limit_sell == limit_sells(sr_data.spread_return, limit_threshold(cfg))
        sell_volume == sell_volume_of(next_mat.quantity, cfg)
        amount == limit_amount(sell_volume, st.limit_order_max[next_mat_id])
        m == attempt_sell_type_list(StationId, sell_volume, st.buy_order_map[next_mat_id])
        sold == IF limit_sell THEN limit_sold(amount, sr_data.best_ask[1])
                ELSE centi(m.fills)
        lom2 == IF limit_sell /\ amount > 0
                THEN [st.limit_order_max EXCEPT ![next_mat_id] = @ - amount]
                ELSE st.limit_order_max
        bom2 == IF limit_sell THEN st.buy_order_map
                ELSE [st.buy_order_map EXCEPT ![next_mat_id] = m.orders]
    IN IF sale_failed(sold)
       THEN [st EXCEPT !.limit_order_max = lom2, !.buy_order_map = bom2,
                       !.sell_orders = abandoned(@), !.stopped = TRUE]
       ELSE [st EXCEPT !.limit_order_max = lom2, !.buy_order_map = bom2,
                       !.current_gross = @ + gross_ratio(limit_sell, cfg) * SumValue(sold),
                       !.current_cost = @ + cfg.station_tax * SumValue(sold),
                       !.sell_orders = (next_mat_id :> sold) @@ @]

\* lines 444-480: the loop over the materials, left at the first empty sale
RECURSIVE sell_all(_, _, _)
sell_all(st, k, cfg) ==
    IF k > Len(cur_type.material_map) \/ st.stopped THEN st
    ELSE Apply(LAMBDA after : sell_all(after, k + 1, cfg), sell_one(st, k, cfg))

\* the rows of the snapshot after a pass of the loop consumed from the list
\* of source sell orders and from the lists of material buy orders: the k-th
\* row an extraction selected goes with the k-th order of its list
snapshot_rows_after(rows, src, sol, bom) ==
    LET sold_from(o) == o.type_id = src.typeID /\ o.location_id = StationId /\ o.buy = FALSE
        bought_by(o, mat) == o.type_id = mat /\ o.buy = TRUE
    IN [i \in DOMAIN rows |->
           IF sold_from(rows[i])
           THEN [rows[i] EXCEPT !.volume =
                    stored_volume(@, sol[Cardinality({j \in 1..i : sold_from(rows[j])})].volume)]
           ELSE IF rows[i].buy /\ rows[i].type_id \in DOMAIN bom
           THEN [rows[i] EXCEPT !.volume =
                    stored_volume(@, bom[rows[i].type_id][
                        Cardinality({j \in 1..i : bought_by(rows[j], rows[i].type_id)})].volume)]
           ELSE rows[i]]

\* lines 498-504
report(total_gross, total_cost, buys, sells) ==
    IF report_test(total_gross, total_cost)
    THEN Some([gross |-> total_gross, cost |-> total_cost,
               profit |-> total_gross - total_cost,
               margin |-> Ratio(total_gross - total_cost, total_cost),
               buy_orders |-> compress_order_list(buys, TRUE),
               sell_orders |-> [i \in DOMAIN sells |->
                                   compress_order_list(sells[i], FALSE)]])
    ELSE None

\* lines 401-428: the setup before the loop
AttemptSetup ==
    /\ pc = "call"
    /\ pc' = "round"
    /\ sell_order_list' = extract_sell_orders(cur_snapshot, cur_type.typeID, StationId)
    /\ buy_order_map' = [m \in material_ids(cur_type) |-> extract_buy_orders(cur_snapshot, m)]
    /\ all_sell_orders' = [m \in material_ids(cur_type) |-> <<>>]
    /\ limit_order_max' = [m \in material_ids(cur_type) |->
                              limit_budget(m, market_summary, config)]
    /\ spread_data' = [m \in material_ids(cur_type) |->
                          spread_return(cur_snapshot, m, StationId)]
    /\ all_buy_orders' = <<>>
    /\ gross' = 0
    /\ cost' = 0
    /\ current_gross' = 0
    /\ current_cost' = 0
    /\ bought' = <<>>
    /\ sell_orders' = <<>>
    /\ rounds' = 0
    /\ committed' = <<>>
    /\ exit' = "none"
    /\ opp' = None
    /\ UNCHANGED <<match_vars, input_vars, scan_vars, clean_vars>>

\* lines 432-443: the locals of a pass of the loop once the source is bought
round_start(fills) ==
    [buy_order_map |-> buy_order_map, limit_order_max |-> limit_order_max,
     current_gross |-> 0,
     current_cost |-> RateScale * SumValue(centi(fills)),
     sell_orders |-> <<>>, stopped |-> FALSE]

\* lines 429-495: one pass of the loop; b is what the source purchase
\* returns, st the locals after the loop over the materials
Round ==
    /\ pc = "round"
    /\ \E b \in {attempt_buy_type_list(cur_type.portionSize, sell_order_list)} :
       \E st \in {sell_all(round_start(b.fills), 1, config)} :
       LET bom == IF Len(b.fills) = 0 THEN buy_order_map ELSE st.buy_order_map
       IN /\ sell_order_list' = b.orders
          /\ order_book' = [order_book EXCEPT ![snap_idx].rows =
                                snapshot_rows_after(cur_snapshot.rows, cur_type, b.orders, bom)]
          /\ bought' = centi(b.fills)
          /\ IF Len(b.fills) = 0
             THEN /\ pc' = "report"
                  /\ exit' = "no_source"
                  /\ current_gross' = 0
                  /\ current_cost' = 0
                  /\ UNCHANGED <<buy_order_map, limit_order_max, sell_orders,
                                 all_buy_orders, all_sell_orders, gross, cost, rounds,
                                 committed>>
             ELSE /\ buy_order_map' = st.buy_order_map
                  /\ limit_order_max' = st.limit_order_max
                  /\ current_gross' = st.current_gross
                  /\ current_cost' = st.current_cost
                  /\ sell_orders' = st.sell_orders
                  /\ IF DOMAIN st.sell_orders = {}
                     THEN /\ pc' = "report"
                          /\ exit' = "no_sale"
                          /\ UNCHANGED <<all_buy_orders, all_sell_orders, gross, cost, rounds,
                                 committed>>
                     ELSE IF round_profit(st.current_gross, st.current_cost)
                     THEN /\ pc' = "round"
                          /\ exit' = "none"
                          /\ all_buy_orders' = all_buy_orders \o centi(b.fills)
                          /\ all_sell_orders' =
                                 [i \in DOMAIN all_sell_orders |->
                                     IF i \in DOMAIN st.sell_orders
                                     THEN all_sell_orders[i] \o st.sell_orders[i]
                                     ELSE all_sell_orders[i]]
                          /\ cost' = cost + st.current_cost
                          /\ gross' = gross + st.current_gross
                          /\ rounds' = rounds + 1
                          /\ committed' = Append(committed,
                                                 [gross |-> st.current_gross,
                                                  cost |-> st.current_cost])
                     ELSE /\ pc' = "report"
                          /\ exit' = "no_profit"
                          /\ UNCHANGED <<all_buy_orders, all_sell_orders, gross, cost, rounds,
                                 committed>>
    /\ UNCHANGED <<spread_data, opp>>
    /\ UNCHANGED <<type_map, market_summary, config>>
    /\ UNCHANGED <<match_vars, scan_vars, clean_vars>>

\* lines 497-504: the return
AttemptReturn ==
    /\ pc = "report"
    /\ pc' = "returned"
    /\ opp' = report(gross, cost, all_buy_orders, all_sell_orders)
    /\ calls' = Append(calls, [snapshot |-> snap_idx, source_type |-> type_idx,
                               found |-> opp' # None])
    /\ UNCHANGED <<sell_order_list, buy_order_map, limit_order_max, spread_data,
                   all_buy_orders, all_sell_orders, gross, cost,
                   current_gross, current_cost, bought, sell_orders, rounds, committed,
                   exit>>
    /\ UNCHANGED <<run, snap_idx, type_idx, opportunities, first_run>>
    /\ UNCHANGED <<match_vars, input_vars, clean_vars>>

----------------------------------------------------------------------------
(* Inputs of an attempt: one snapshot, one source type *)

BookOrders == 2     \* varied orders per type and side in a snapshot
BookVol == 2        \* volume of a varied order of a snapshot
MaxPortion == 2     \* portionSize of a source type
MaxQuantity == 3    \* quantity of a material in a material map

\* the configuration of the notebook, cell 7
TaxRate == 10           \* tax_rate = 0.01
StationTax == 40        \* station_tax = 0.04
BrokerRate == 25        \* broker_rate = 0.025
VolumeLimit == 1        \* volume_limit = 0.01
Efficiency == 69575     \* efficiency = 0.5 * 1.15 * 1.1 * 1.1
notebook_config ==
    [tax_rate |-> TaxRate, efficiency |-> Efficiency, station_tax |-> StationTax,
     broker_fee |-> BrokerRate, volume_limit |-> VolumeLimit]

SrcPrices == {19, 150}
BidPrices == {100, 193}
AskPrices == {102, 105, 198}
DailyVolumes == {150, 500}

SeqsUpTo(S, n) == UNION {[1..k -> S] : k \in 0..n}
Ascending(list) == \A i, j \in DOMAIN list : i < j => list[i].price <= list[j].price
Descending(list) == \A i, j \in DOMAIN list : i < j => list[i].price >= list[j].price

\* sell orders of the source type at the station, low price to high
SourceSells(src) ==
    {l \in SeqsUpTo({Order(src, StationId, "station", FALSE, p, v, 1) :
                         p \in SrcPrices, v \in 1..BookVol}, BookOrders) : Ascending(l)}

\* buy orders of a material in range of the station, high price to low
MaterialBuys(mat) ==
    {l \in SeqsUpTo({Order(mat, StationId, "station", TRUE, p, v, 1) :
                         p \in BidPrices, v \in 1..BookVol}, BookOrders) : Descending(l)}

\* the sell orders of a material at the station: none, or one at an ask price
MaterialSells(mat) ==
    {<<>>} \cup {<<Order(mat, StationId, "station", FALSE, p, 1, 1)>> : p \in AskPrices}

\* orders every snapshot holds: a cheaper source order at another station, a
\* better bid out of range and one whose location cannot be resolved, and the
\* book of the second material
fixed_rows(src) ==
    << Order(src, "remote", "station", FALSE, 1, BookVol, 1),
       Order(src, StationId, "station", TRUE, 1, BookVol, 1),
       Order("trit", "citadel", "region", TRUE, 200, BookVol, 1),
       Order("trit", "remote", "station", TRUE, 200, BookVol, 1),
       Order("pyer", StationId, "station", TRUE, 100, BookVol, 1) >>

Snapshots(t, src) ==
    {[time |-> t, rows |-> fixed_rows(src) \o ss \o mb \o ms] :
        ss \in SourceSells(src), mb \in MaterialBuys("trit"), ms \in MaterialSells("trit")}

MaterialMaps ==
    {<<>>}
    \cup {<<[materialTypeID |-> "trit", quantity |-> q]>> : q \in 1..MaxQuantity}
    \cup {<<[materialTypeID |-> "trit", quantity |-> q],
            [materialTypeID |-> "pyer", quantity |-> 2]>> : q \in 1..MaxQuantity}

SourceTypes(src) ==
    {[typeID |-> src, typeName |-> src, portionSize |-> ps, material_map |-> mm] :
        ps \in 0..MaxPortion, mm \in MaterialMaps}

IdleMatch ==
    /\ m_list = <<>> /\ m_side = "none" /\ m_volume = 0
    /\ m_result = <<>> /\ m_prev = <<>> /\ m_calls = 0

IdleClean == c_opps = <<>> /\ c_result = <<>> /\ c_pc = "idle" /\ c_total = None

AttemptLocalsInit ==
    /\ pc = "call"
    /\ sell_order_list = <<>> /\ buy_order_map = <<>> /\ limit_order_max = <<>>
    /\ spread_data = <<>> /\ all_buy_orders = <<>> /\ all_sell_orders = <<>>
    /\ gross = 0 /\ cost = 0 /\ current_gross = 0 /\ current_cost = 0
    /\ bought = <<>> /\ sell_orders = <<>> /\ rounds = 0 /\ committed = <<>>
    /\ exit = "none" /\ opp = None

Init ==
    /\ IdleMatch
    /\ IdleClean
    /\ order_book \in {<<s>> : s \in Snapshots(0, "ore")}
    /\ type_map \in {<<t>> : t \in SourceTypes("ore")}
    /\ market_summary \in {[trit |-> d, pyer |-> 150] : d \in DailyVolumes}
    /\ config = notebook_config
    /\ run = 1 /\ snap_idx = 1 /\ type_idx = 1
    /\ opportunities = <<>> /\ first_run = <<>> /\ calls = <<>>
    /\ AttemptLocalsInit

Next == AttemptSetup \/ Round \/ AttemptReturn

Spec == Init /\ [][Next]_vars

----------------------------------------------------------------------------
(* find_opportunities, run twice on the same inputs *)

\* a mutant of tagged: the opportunity carries the id of the type, not its name
tagged_by_id(found, snapshot, source_type) ==
    [time |-> snapshot.time, type |-> source_type.typeID] @@ found

\* lines 542-543: opp['time'] = snapshot_time, opp['type'] = typeName
tagged(found, snapshot, source_type) ==
    [time |-> snapshot.time, type |-> source_type.typeName] @@ found

\* lines 539-544, and the step of the loops of lines 523 and 535
Collect ==
    /\ pc = "returned"
    /\ opportunities' =
           IF opp # None
           THEN Append(opportunities, tagged(opp[1], cur_snapshot, cur_type))
           ELSE opportunities
    /\ IF type_idx < Len(type_map)
       THEN /\ type_idx' = type_idx + 1
            /\ pc' = "call"
            /\ UNCHANGED snap_idx
       ELSE IF snap_idx < Len(order_book)
       THEN /\ snap_idx' = snap_idx + 1
            /\ type_idx' = 1
            /\ pc' = "call"
       ELSE /\ pc' = "finished"
            /\ UNCHANGED <<snap_idx, type_idx>>
    /\ UNCHANGED <<run, first_run, calls>>
    /\ UNCHANGED <<sell_order_list, buy_order_map, limit_order_max, spread_data,
                   all_buy_orders, all_sell_orders, gross, cost,
                   current_gross, current_cost, bought, sell_orders, rounds, committed,
                   exit, opp>>
    /\ UNCHANGED <<match_vars, input_vars, clean_vars>>

\* lines 575-577, a second time: the same call on the same arguments
SecondRun ==
    /\ pc = "finished"
    /\ run = 1
    /\ run' = 2
    /\ first_run' = opportunities
    /\ opportunities' = <<>>
    /\ calls' = <<>>
    /\ snap_idx' = 1
    /\ type_idx' = 1
    /\ pc' = "call"
    /\ UNCHANGED <<sell_order_list, buy_order_map, limit_order_max, spread_data,
                   all_buy_orders, all_sell_orders, gross, cost,
                   current_gross, current_cost, bought, sell_orders, rounds, committed,
                   exit, opp>>
    /\ UNCHANGED <<match_vars, input_vars, clean_vars>>

SnapshotStep == 5   \* minutes between the snapshots of the order book

\* the order book of a scan: two snapshots, each with the books of two source
\* types and of the material both refine to
ScanSells(src) ==
    {<<>>, <<Order(src, StationId, "station", FALSE, 19, BookVol, 1)>>,
     <<Order(src, StationId, "station", FALSE, 19, 1, 1),
       Order(src, StationId, "station", FALSE, 150, BookVol, 1)>>}

ScanBuys(mat) ==
    {<<Order(mat, StationId, "station", TRUE, 100, 1, 1)>>,
     <<Order(mat, StationId, "station", TRUE, 193, BookVol, 1),
       Order(mat, StationId, "station", TRUE, 100, BookVol, 1)>>}

ScanAsks(mat) ==
    {<<>>, <<Order(mat, StationId, "station", FALSE, 198, 1, 1)>>}

ScanSnapshots(t) ==
    {[time |-> t, rows |-> fixed_rows("ore") \o so \o si \o mb \o ms] :
        so \in ScanSells("ore"), si \in ScanSells("ice"),
        mb \in ScanBuys("trit"), ms \in ScanAsks("trit")}

scan_type_map ==
    << [typeID |-> "ore", typeName |-> "Ore", portionSize |-> 1,
        material_map |-> <<[materialTypeID |-> "trit", quantity |-> 2],
                           [materialTypeID |-> "pyer", quantity |-> 2]>>],
       [typeID |-> "ice", typeName |-> "Ice", portionSize |-> 1,
        material_map |-> <<[materialTypeID |-> "trit", quantity |-> 2]>>] >>

InitScan ==
    /\ IdleMatch
    /\ IdleClean
    /\ order_book \in {<<s1, s2>> : s1 \in ScanSnapshots(0),
                                    s2 \in ScanSnapshots(SnapshotStep)}
    /\ type_map = scan_type_map
    /\ market_summary \in {[trit |-> d, pyer |-> 150] : d \in DailyVolumes}
    /\ config = notebook_config
    /\ run = 1 /\ snap_idx = 1 /\ type_idx = 1
    /\ opportunities = <<>> /\ first_run = <<>> /\ calls = <<>>
    /\ AttemptLocalsInit

NextScan == AttemptSetup \/ Round \/ AttemptReturn \/ Collect \/ SecondRun

SpecScan == InitScan /\ [][NextScan]_vars

\* a scan of one snapshot for one source type, every step of which is taken:
\* the loops of the notebook run on until they end
\* the inputs of the scan: source orders that sell at a profit, the lists of
\* material buy orders that end a run of rounds early or late, every source
\* type
FairSells(src) == {l \in SourceSells(src) : \A i \in DOMAIN l : l[i].price = 19}

FairBuys(mat) ==
    {<<>>, <<Order(mat, StationId, "station", TRUE, 100, 1, 1)>>,
     <<Order(mat, StationId, "station", TRUE, 193, BookVol, 1),
       Order(mat, StationId, "station", TRUE, 100, BookVol, 1)>>}

FairSnapshots(t, src) ==
    {[time |-> t, rows |-> fixed_rows(src) \o ss \o mb \o ms] :
        ss \in FairSells(src), mb \in FairBuys("trit"), ms \in MaterialSells("trit")}

InitFair ==
    /\ IdleMatch
    /\ IdleClean
    /\ order_book \in {<<s>> : s \in FairSnapshots(0, "ore")}
    /\ type_map \in {<<t>> : t \in SourceTypes("ore")}
    /\ market_summary \in {[trit |-> d, pyer |-> 150] : d \in DailyVolumes}
    /\ config = notebook_config
    /\ run = 1 /\ snap_idx = 1 /\ type_idx = 1
    /\ opportunities = <<>> /\ first_run = <<>> /\ calls = <<>>
    /\ AttemptLocalsInit

NextFair == AttemptSetup \/ Round \/ AttemptReturn \/ Collect

SpecFair ==
    /\ InitFair /\ [][NextFair]_vars
    /\ WF_vars(AttemptSetup) /\ WF_vars(Round) /\ WF_vars(AttemptReturn) /\ WF_vars(Collect)

----------------------------------------------------------------------------
(* The matchers on their own: calls made one after another on one list *)

MatchPrices == {100, 101}

\* where a buy order sits and how far it reaches: at the station, at another
\* station with a range that ends there, at a location that cannot be resolved
MatchPlaces == {<<"station", "station">>, <<"remote", "station">>, <<"citadel", "region">>}

MatchSellOrders ==
    {Order("ore", StationId, "station", FALSE, p, v, mv) :
        p \in MatchPrices, v \in 1..MaxVol, mv \in 1..MaxMinVol}

MatchBuyOrders ==
    {Order("trit", pl[1], pl[2], TRUE, p, v, mv) :
        pl \in MatchPlaces, p \in MatchPrices, v \in 1..MaxVol, mv \in 1..MaxMinVol}

\* one sell order of 50 units at 100, and the volumes asked of it
example_list == <<Order("ore", StationId, "station", FALSE, 100, 50, 1)>>
ExampleVolumes == {50, 60}

MatchVolumes == 0..(MaxOrders * MaxVol) \cup ExampleVolumes

IdleAttempt ==
    /\ order_book = <<>> /\ type_map = <<>> /\ market_summary = <<>>
    /\ config = notebook_config
    /\ run = 0 /\ snap_idx = 0 /\ type_idx = 0
    /\ opportunities = <<>> /\ first_run = <<>> /\ calls = <<>>
    /\ pc = "idle"
    /\ sell_order_list = <<>> /\ buy_order_map = <<>> /\ limit_order_max = <<>>
    /\ spread_data = <<>> /\ all_buy_orders = <<>> /\ all_sell_orders = <<>>
    /\ gross = 0 /\ cost = 0 /\ current_gross = 0 /\ current_cost = 0
    /\ bought = <<>> /\ sell_orders = <<>> /\ rounds = 0 /\ committed = <<>>
    /\ exit = "none" /\ opp = None

InitMatch ==
    /\ IdleAttempt
    /\ IdleClean
    /\ \/ /\ m_side = "sell"
          /\ m_list \in {l \in SeqsUpTo(MatchSellOrders, MaxOrders) : Ascending(l)}
                        \cup {example_list}
       \/ /\ m_side = "buy"
          /\ m_list \in {l \in SeqsUpTo(MatchBuyOrders, MaxOrders) : Descending(l)}
    /\ m_volume = 0
    /\ m_result = <<>>
    /\ m_prev = m_list
    /\ m_calls = 0

\* a call of attempt_buy_type_list on the list of sell orders
CallBuy ==
    /\ m_side = "sell"
    /\ m_calls < MaxCalls
    /\ \E v \in MatchVolumes :
          LET r == attempt_buy_type_list(v, m_list)
          IN /\ m_volume' = v
             /\ m_result' = r.fills
             /\ m_list' = r.orders
    /\ m_prev' = m_list
    /\ m_calls' = m_calls + 1
    /\ UNCHANGED m_side
    /\ UNCHANGED <<input_vars, scan_vars, attempt_vars, clean_vars>>

\* a call of attempt_sell_type_list on the list of buy orders
CallSell ==
    /\ m_side = "buy"
    /\ m_calls < MaxCalls
    /\ \E v \in MatchVolumes :
          LET r == attempt_sell_type_list(StationId, v, m_list)
          IN /\ m_volume' = v
             /\ m_result' = r.fills
             /\ m_list' = r.orders
    /\ m_prev' = m_list
    /\ m_calls' = m_calls + 1
    /\ UNCHANGED m_side
    /\ UNCHANGED <<input_vars, scan_vars, attempt_vars, clean_vars>>

NextMatch == CallBuy \/ CallSell

SpecMatch == InitMatch /\ [][NextMatch]_vars

----------------------------------------------------------------------------
(* clean_opportunities.  Times are in minutes.  The list handed to it is   *)
(* the one find_opportunities builds: in time order, one opportunity at    *)
(* most for a snapshot time and a source type.                             *)

MaxTime == 11       \* latest snapshot time
MaxOpps == 4        \* opportunities in the list

CleanGap == 5       \* datetime.timedelta(minutes=5)

TypeNames == <<"Ore", "Ice">>
type_rank(name) == CHOOSE k \in DOMAIN TypeNames : TypeNames[k] = name

\* the profit and the cost of the opportunities of a source type; an
\* Opportunity has cost > 0 and profit > 0
opp_values(name) ==
    IF name = "Ore" THEN [profit |-> 2, cost |-> 100] ELSE [profit |-> 5, cost |-> 250]

\* a mutant of new_run: no gap starts a new run
new_run_never(i, last) == FALSE

\* a mutant of new_run: a gap of exactly five minutes starts a new run
new_run_at_gap(i, last) == i - last >= CleanGap

\* line 601: the opportunity starts a new run
new_run(i, last) == i - last > CleanGap

\* a mutant of next_last: only a retained opportunity is remembered
next_last_retained(i, last, kept) == IF kept THEN i ELSE last

\* line 604: last = i
next_last(i, last, kept) == i

\* lines 595-604: the stamps kept of the times of one type, in list order
RECURSIVE stamp_list(_, _, _, _)
stamp_list(times, k, last, stamps) ==
    IF k > Len(times) THEN stamps
    ELSE LET i == times[k]
             kept == IF last = None THEN TRUE ELSE new_run(i, last[1])
         IN stamp_list(times, k + 1,
                       Some(next_last(i, IF last = None THEN i ELSE last[1], kept)),
                       IF kept THEN Append(stamps, i) ELSE stamps)

\* a mutant of times_of: the times of the opportunities of every type
times_of_all(opps, next_type) == [k \in DOMAIN opps |-> opps[k].time]

\* line 597: the times of the opportunities of the type, in list order
times_of(opps, next_type) ==
    LET sel == SelectSeq(opps, LAMBDA x : x.type = next_type)
    IN [k \in DOMAIN sel |-> sel[k].time]

\* lines 589-613
clean_opportunities(opps) ==
    LET types == {opps[k].type : k \in DOMAIN opps}
        stamp_map == [next_type \in types |->
                         stamp_list(times_of(opps, next_type), 1, None, <<>>)]
        in_list(t, list) == \E k \in DOMAIN list : list[k] = t
    IN SelectSeq(opps, LAMBDA o : in_list(o.time, stamp_map[o.type]))

\* find_opportunities appends one more opportunity: a later snapshot, or the
\* same snapshot and a later source type
AppendOpp ==
    /\ c_pc = "input"
    /\ Len(c_opps) < MaxOpps
    /\ \E t \in 0..MaxTime, k \in DOMAIN TypeNames :
          /\ IF c_opps = <<>> THEN TRUE
             ELSE \/ c_opps[Len(c_opps)].time < t
                  \/ /\ c_opps[Len(c_opps)].time = t
                     /\ type_rank(c_opps[Len(c_opps)].type) < k
          /\ c_opps' = Append(c_opps, [time |-> t, type |-> TypeNames[k],
                                       profit |-> opp_values(TypeNames[k]).profit,
                                       cost |-> opp_values(TypeNames[k]).cost])
    /\ UNCHANGED <<c_result, c_pc, c_total>>
    /\ UNCHANGED <<match_vars, input_vars, scan_vars, attempt_vars>>

\* lines 675: cleaned_full_opps = clean_opportunities(full_opportunities)
Clean ==
    /\ c_pc = "input"
    /\ c_result' = clean_opportunities(c_opps)
    /\ c_pc' = "done"
    /\ UNCHANGED <<c_opps, c_total>>
    /\ UNCHANGED <<match_vars, input_vars, scan_vars, attempt_vars>>

InitClean ==
    /\ IdleMatch
    /\ IdleAttempt
    /\ c_opps = <<>>
    /\ c_result = <<>>
    /\ c_pc = "input"
    /\ c_total = None

\* np.sum([x[field] for x in opps])
SumField(opps, field) ==
    LET RECURSIVE S(_)
        S(i) == IF i = 0 THEN 0 ELSE opps[i][field] + S(i - 1)
    IN S(Len(opps))

\* a / b of two numpy floats: the quotient, kept exact; with b = 0 numpy
\* warns and gives nan or inf, the ratio with den = 0
true_divide(a, b) == Ratio(a, b)

\* line 706: total_return = total_profit / total_cost
total_return_of(total_profit, total_cost) == Some(true_divide(total_profit, total_cost))

\* lines 704-706: the aggregate performance of the cleaned list
Aggregate ==
    /\ c_pc = "done"
    /\ c_pc' = "aggregated"
    /\ c_total' = Some([total_profit |-> SumField(c_result, "profit"),
                        total_cost |-> SumField(c_result, "cost"),
                        total_return |-> total_return_of(SumField(c_result, "profit"),
                                                         SumField(c_result, "cost"))])
    /\ UNCHANGED <<c_opps, c_result>>
    /\ UNCHANGED <<match_vars, input_vars, scan_vars, attempt_vars>>

NextClean == AppendOpp \/ Clean \/ Aggregate

SpecClean == InitClean /\ [][NextClean]_vars

----------------------------------------------------------------------------
(* clean_opportunities on a list in any order: the function takes whatever *)
(* list its caller hands it.                                               *)

MaxAnyOpps == 3     \* opportunities in a list in any order

\* the caller puts one more opportunity in the list, of any time
AppendAny ==
    /\ c_pc = "input"
    /\ Len(c_opps) < MaxAnyOpps
    /\ \E t \in 0..MaxTime, k \in DOMAIN TypeNames :
          /\ \A i \in DOMAIN c_opps : ~(c_opps[i].time = t /\ c_opps[i].type = TypeNames[k])
          /\ c_opps' = Append(c_opps, [time |-> t, type |-> TypeNames[k],
                                       profit |-> opp_values(TypeNames[k]).profit,
                                       cost |-> opp_values(TypeNames[k]).cost])
    /\ UNCHANGED <<c_result, c_pc, c_total>>
    /\ UNCHANGED <<match_vars, input_vars, scan_vars, attempt_vars>>

NextCleanAny == AppendAny \/ Clean

SpecCleanAny == InitClean /\ [][NextCleanAny]_vars

----------------------------------------------------------------------------
(* One material of an attempt on its own: its buy orders and its spread    *)
(* are taken from the snapshot (lines 415-423), then a volume of it is     *)
(* sold to the market (line 464).  The sell orders of the material sit at  *)
(* the station or elsewhere, its buy orders anywhere in the region.        *)

SpreadAsks(mat) ==
    {l \in SeqsUpTo({Order(mat, loc, "station", FALSE, p, 1, 1) :
                         loc \in {StationId, "remote"}, p \in AskPrices}, MaxOrders) :
        Ascending(l)}

SpreadBids(mat) ==
    {l \in SeqsUpTo({Order(mat, pl[1], pl[2], TRUE, p, v, mv) :
                         pl \in MatchPlaces, p \in BidPrices,
                         v \in 1..MaxVol, mv \in 1..MaxMinVol}, MaxOrders) :
        Descending(l)}

SpreadSnapshots(mat) ==
    {[time |-> 0, rows |-> sa \o sb] : sa \in SpreadAsks(mat), sb \in SpreadBids(mat)}

InitSpread ==
    /\ IdleMatch
    /\ IdleClean
    /\ order_book \in {<<s>> : s \in SpreadSnapshots("trit")}
    /\ type_map = <<>> /\ market_summary = <<>>
    /\ config = notebook_config
    /\ run = 0 /\ snap_idx = 1 /\ type_idx = 0
    /\ opportunities = <<>> /\ first_run = <<>> /\ calls = <<>>
    /\ pc = "material"
    /\ sell_order_list = <<>> /\ buy_order_map = <<>> /\ limit_order_max = <<>>
    /\ spread_data = <<>> /\ all_buy_orders = <<>> /\ all_sell_orders = <<>>
    /\ gross = 0 /\ cost = 0 /\ current_gross = 0 /\ current_cost = 0
    /\ bought = <<>> /\ sell_orders = <<>> /\ rounds = 0 /\ committed = <<>>
    /\ exit = "none" /\ opp = None

\* lines 415 and 423, for the material
SpreadSetup ==
    /\ pc = "material"
    /\ pc' = "sell"
    /\ buy_order_map' = [m \in {"trit"} |-> extract_buy_orders(cur_snapshot, m)]
    /\ spread_data' = [m \in {"trit"} |-> spread_return(cur_snapshot, m, StationId)]
    /\ UNCHANGED <<sell_order_list, limit_order_max, all_buy_orders, all_sell_orders,
                   gross, cost, current_gross, current_cost, bought, sell_orders,
                   rounds, committed, exit, opp>>
    /\ UNCHANGED <<match_vars, input_vars, scan_vars, clean_vars>>

\* lines 448 and 463-464: the material is not sold by limit order, a volume
\* of it is sold into its buy orders
MarketSale ==
    /\ pc = "sell"
    /\ ~limit_sells(spread_data["trit"].spread_return, limit_threshold(config))
    /\ \E v \in 0..(MaxOrders * MaxVol) :
          LET r == attempt_sell_type_list(StationId, v, buy_order_map["trit"])
          IN /\ m_volume' = v
             /\ m_result' = r.fills
             /\ buy_order_map' = [buy_order_map EXCEPT !["trit"] = r.orders]
    /\ m_prev' = buy_order_map["trit"]
    /\ pc' = "sold"
    /\ UNCHANGED <<m_list, m_side, m_calls>>
    /\ UNCHANGED <<sell_order_list, limit_order_max, spread_data, all_buy_orders,
                   all_sell_orders, gross, cost, current_gross, current_cost, bought,
                   sell_orders, rounds, committed,
                   exit, opp>>
    /\ UNCHANGED <<input_vars, scan_vars, clean_vars>>

NextSpread == SpreadSetup \/ MarketSale

SpecSpread == InitSpread /\ [][NextSpread]_vars

----------------------------------------------------------------------------
(* Properties *)

\* the state a committed round leaves: the loop goes on and holds the
\* round's bought, sell_orders, current_gross and current_cost
RoundCommitted == pc = "round" /\ rounds > 0

\* the volume a material of the map has to be sold at, in 1/VolScale units
required_centi(next_mat) == sell_volume_of(next_mat.quantity, config) * VolScale

\* C1: a matcher call, buying or selling, returns the empty list or fills
\* whose volumes sum to the requested volume, never a partial fill; the order
\* of 50 at 100 gives one fill of 50 at 100 when 50 are asked and the empty
\* list when 60 are.
C1_AllOrNothing ==
    m_calls > 0 =>
        /\ m_result = <<>> \/ SumVolume(m_result) = m_volume
        /\ (m_prev = example_list /\ m_volume = 50) =>
               m_result = <<[price |-> 100, volume |-> 50, market |-> TRUE]>>
        /\ (m_prev = example_list /\ m_volume = 60) => m_result = <<>>

\* a sale filled from two buy orders, on a list an earlier call consumed from
C1_Witness ==
    /\ m_side = "buy" /\ m_calls = 2 /\ m_prev # m_list
    /\ Len(m_result) = 2 /\ SumVolume(m_result) = m_volume

C3_CommitOnlyProfit ==
    [][ /\ pc = "round" =>
            /\ (<<gross, cost, all_buy_orders, all_sell_orders>>' #
                    <<gross, cost, all_buy_orders, all_sell_orders>>) =>
                   /\ current_gross' > current_cost'
                   /\ gross' = gross + current_gross'
                   /\ cost' = cost + current_cost'
                   /\ all_buy_orders' = all_buy_orders \o bought'
            /\ current_gross' <= current_cost' =>
                   /\ pc' = "report"
                   /\ UNCHANGED <<gross, cost, all_buy_orders, all_sell_orders, rounds>>
        /\ pc = "report" => pc' = "returned" ]_vars

\* an unprofitable round ended an attempt that had committed a round
C3_Witness ==
    /\ pc = "report" /\ exit = "no_profit" /\ rounds >= 1
    /\ current_gross <= current_cost /\ current_gross > 0

\* C4: attempt_opportunity returns None exactly when no round was
\* committed and an Opportunity exactly when one was; the margin it computes
\* divides by a cost that is not 0.
C4_NoneIffNoRound ==
    pc = "returned" =>
        /\ (opp = None) <=> (rounds = 0)
        /\ opp # None => opp[1].cost > 0

\* rounds were committed, the last round failed, the Opportunity is returned
C4_Witness == pc = "returned" /\ opp # None /\ rounds >= 1 /\ exit = "no_sale"

\* the fills are those of limit orders
limit_fills(sold) == \A i \in DOMAIN sold : ~sold[i].market

\* C5 as stated: a round is committed only if every material of the map was
\* sold in that round at its full volume floor(quantity x efficiency), in
\* limit mode as in market mode.
C5_FullVolumeEveryMaterial ==
    RoundCommitted =>
        \A k \in DOMAIN cur_type.material_map :
            LET next_mat == cur_type.material_map[k]
            IN /\ next_mat.materialTypeID \in DOMAIN sell_orders
               /\ SumVolume(sell_orders[next_mat.materialTypeID]) = required_centi(next_mat)

\* C5, amended: a round is committed only if every material of the map had
\* a sale in that round that is not empty: in market mode at the full volume
\* floor(quantity x efficiency), in limit mode one fill of that volume or, if
\* the budget left is smaller and above 0, of all the budget left; a
\* material without a sale leaves the round's sell set empty and ends the
\* attempt with the totals as they were.
C5_EveryMaterialSold ==
    /\ RoundCommitted =>
        \A k \in DOMAIN cur_type.material_map :
            LET next_mat == cur_type.material_map[k]
                id == next_mat.materialTypeID
            IN /\ id \in DOMAIN sell_orders
               /\ sell_orders[id] # <<>>
               /\ SumVolume(sell_orders[id]) > 0
               /\ IF limit_fills(sell_orders[id])
                  THEN /\ Len(sell_orders[id]) = 1
                       /\ \/ SumVolume(sell_orders[id]) = required_centi(next_mat)
                          \/ /\ SumVolume(sell_orders[id]) < required_centi(next_mat)
                             /\ limit_order_max[id] = 0
                  ELSE SumVolume(sell_orders[id]) = required_centi(next_mat)
    /\ exit = "no_sale" => sell_orders = <<>> /\ pc \in {"report", "returned"}

\* a committed round that sold a material by limit order below its full
\* volume, next to a material sold to the market
C5_Witness ==
    /\ RoundCommitted
    /\ Len(cur_type.material_map) = 2
    /\ limit_fills(sell_orders["trit"])
    /\ SumVolume(sell_orders["trit"]) < required_centi(cur_type.material_map[1])
    /\ ~limit_fills(sell_orders["pyer"])

\* the precomputed spread of a material is above the limit threshold
\* brokerFee / (1 - taxRate - brokerFee)
above_threshold(id) ==
    spread_data[id].spread_return.num * (RateScale - config.tax_rate - config.broker_fee)
        > config.broker_fee * spread_data[id].spread_return.den

\* C6: a material is sold by limit order iff its precomputed spread_return
\* is strictly above brokerFee / (1 - taxRate - brokerFee), and to the market
\* through attempt_sell_type_list otherwise, a spread of 0, a negative one
\* and one at the threshold included; with the rates of the notebook,
\* best_ask 105 and best_bid 100 the mode is limit.  A limit sale leaves the
\* buy orders alone, a market sale leaves the limit budget alone.
C6_LimitIffAboveThreshold ==
    pc \in {"round", "report", "returned"} =>
        \A id \in DOMAIN spread_data :
            /\ id \in DOMAIN sell_orders =>
                   (limit_fills(sell_orders[id]) <=> above_threshold(id))
            /\ above_threshold(id) =>
                   buy_order_map[id] = extract_buy_orders(cur_snapshot, id)
            /\ ~above_threshold(id) =>
                   limit_order_max[id] = limit_budget(id, market_summary, config)
            /\ (spread_data[id].best_ask = Some(105) /\ spread_data[id].best_bid = Some(100)
                    /\ config = notebook_config) => above_threshold(id)
            /\ (spread_data[id].best_ask = None \/ spread_data[id].best_bid = None
                    \/ spread_data[id].spread_return.num <= 0) => ~above_threshold(id)

\* the example: rates of the notebook, best_ask 105, best_bid 100, sold by
\* limit order
C6_Witness ==
    /\ RoundCommitted
    /\ "trit" \in DOMAIN sell_orders
    /\ spread_data["trit"].best_ask = Some(105)
    /\ spread_data["trit"].best_bid = Some(100)
    /\ limit_fills(sell_orders["trit"])

\* the volume of the limit fills of a list
RECURSIVE limit_volume(_)
limit_volume(fills) ==
    IF fills = <<>> THEN 0
    ELSE (IF fills[1].market THEN 0 ELSE fills[1].volume) + limit_volume(Tail(fills))

\* C7: within an attempt, for every material and after any number of
\* rounds, the volume sold by limit orders is at most dailyVolume x
\* volumeLimit and the budget left, limit_order_max, is not negative; each
\* limit sale is taken off the budget, which is carried from round to round.
C7_LimitBudget ==
    pc \in {"round", "report", "returned"} =>
        \A id \in DOMAIN limit_order_max :
            LET budget == market_summary[id] * config.volume_limit
            IN /\ limit_order_max[id] >= 0
               /\ limit_volume(all_sell_orders[id]) <= budget
               /\ limit_volume(all_sell_orders[id]) + limit_order_max[id] <= budget
               /\ pc = "round" =>
                      limit_order_max[id] = budget - limit_volume(all_sell_orders[id])
               /\ opp # None => limit_volume(opp[1].sell_orders[id]) <= budget

\* the budget of a material used up over two committed rounds
C7_Witness ==
    /\ RoundCommitted /\ rounds = 2
    /\ limit_order_max["trit"] = 0
    /\ limit_volume(all_sell_orders["trit"]) = market_summary["trit"] * config.volume_limit

\* the opportunity is in the cleaned list
retained(o) == \E i \in DOMAIN c_result : c_result[i] = o

\* C8: in the list clean_opportunities returns, any two opportunities of the
\* same source type are more than 5 minutes apart.
C8_RetainedApart ==
    c_pc = "done" =>
        \A i, j \in DOMAIN c_result :
            (i < j /\ c_result[i].type = c_result[j].type) =>
                c_result[j].time - c_result[i].time > CleanGap

\* two opportunities of a type retained and a third of that type dropped
C8_Witness ==
    /\ c_pc = "done"
    /\ Len(c_opps) = 3 /\ Len(c_result) = 2
    /\ \A i \in DOMAIN c_opps : c_opps[i].type = "Ore"

\* the rule of the claim: an opportunity is dropped iff it is within 5
\* minutes of the opportunity of its type retained last before it
RECURSIVE kept_after_retained(_, _, _, _)
kept_after_retained(times, k, last_kept, stamps) ==
    IF k > Len(times) THEN stamps
    ELSE LET kept == IF last_kept = None THEN TRUE
                     ELSE times[k] - last_kept[1] > CleanGap
         IN kept_after_retained(times, k + 1,
                                IF kept THEN Some(times[k]) ELSE last_kept,
                                IF kept THEN stamps \cup {times[k]} ELSE stamps)

\* C9 as stated: an opportunity is dropped iff its time is within 5 minutes
\* of the immediately preceding retained opportunity of its type; of a chain
\* t, t+5, t+10 the one at t+10 is retained.
C9_DroppedIffNearRetained ==
    c_pc = "done" =>
        \A k \in DOMAIN c_opps :
            retained(c_opps[k]) <=>
                c_opps[k].time \in
                    kept_after_retained(times_of(c_opps, c_opps[k].type), 1, None, {})

\* the opportunities of the type of opportunity k that come before it
earlier_same_type(k) == {j \in 1..(k - 1) : c_opps[j].type = c_opps[k].type}

\* C9, amended: an opportunity is dropped iff its time is within 5 minutes
\* of the immediately preceding opportunity of its type in the list, retained
\* or not; of a chain t, t+5, t+10 only the one at t is retained.
C9_DroppedIffNearPrevious ==
    c_pc = "done" =>
        /\ \A k \in DOMAIN c_opps :
               LET before == earlier_same_type(k)
                   prev == CHOOSE j \in before : \A i \in before : i <= j
               IN retained(c_opps[k]) <=>
                      (before = {} \/ c_opps[k].time - c_opps[prev].time > CleanGap)
        /\ \A t \in 0..MaxTime :
               times_of(c_opps, "Ore") = <<t, t + CleanGap, t + 2 * CleanGap>> =>
                   times_of(c_result, "Ore") = <<t>>

\* the chain 0, 5, 10 of one type, cleaned to the opportunity at 0
C9_Witness ==
    /\ c_pc = "done"
    /\ times_of(c_opps, "Ice") = <<0, CleanGap, 2 * CleanGap>>
    /\ times_of(c_result, "Ice") = <<0>>

\* C10: find_opportunities run twice on the same order book, type map,
\* market summary and configuration gives the same list of opportunities,
\* in the same order, with the same gross, cost and orders.
C10_SecondRunSame ==
    /\ run = 2 =>
           /\ Len(opportunities) <= Len(first_run)
           /\ opportunities = SubSeq(first_run, 1, Len(opportunities))
    /\ (run = 2 /\ pc = "finished") => opportunities = first_run

\* a second run that found three opportunities, limit orders among them
C10_Witness ==
    /\ run = 2 /\ pc = "finished"
    /\ Len(opportunities) >= 3
    /\ \E i \in DOMAIN opportunities :
           /\ "trit" \in DOMAIN opportunities[i].sell_orders
           /\ limit_fills(opportunities[i].sell_orders["trit"])

\* C11: the volume an attempt consumes stays in that attempt: no step of a
\* scan changes a volume of the order book, so after an attempt returned,
\* with an Opportunity or None, every order of every snapshot has its
\* original volume, and the next attempt, whatever its source type and
\* snapshot, starts from the orders of the snapshot as they were and from
\* the full limit budget dailyVolume x volumeLimit.
C11_AttemptConfined ==
    [][ /\ order_book' = order_book
        /\ pc = "call" =>
               /\ sell_order_list' =
                      extract_sell_orders(order_book[snap_idx], cur_type.typeID, StationId)
               /\ \A id \in material_ids(cur_type) :
                      /\ buy_order_map'[id] = extract_buy_orders(order_book[snap_idx], id)
                      /\ limit_order_max'[id] = market_summary[id] * config.volume_limit ]_vars

\* the attempt for Ice starts on the snapshot on which the attempt for Ore
\* sold the material of both to the market and returned an Opportunity
C11_Witness ==
    /\ run = 1 /\ snap_idx = 1 /\ type_idx = 2
    /\ pc = "round" /\ rounds = 0 /\ bought = <<>>
    /\ Len(opportunities) = 1
    /\ ~limit_fills(opportunities[1].sell_orders["trit"])
    /\ buy_order_map["trit"] = extract_buy_orders(order_book[1], "trit")

\* the range check of a buy order answers true
reachable(o) == check_range(StationId, o.location_id, o.order_range) = "in"

\* the buy orders of the material in the snapshot, in the order of its rows
bids_of(mat) == SelectSeq(cur_snapshot.rows, LAMBDA o : o.type_id = mat /\ o.buy)

\* C12: a buy order whose range check answers false or raises is not
\* reachable, in spread_return and in attempt_sell_type_list: it is never
\* the best bid, it is never filled and keeps its volume, and the call goes
\* on to the next order: a reachable order behind it is the best bid, and is
\* filled when it can take the volume sold.
C12_UnreachableSkipped ==
    /\ pc \in {"sell", "sold"} =>
           LET bids == bids_of("trit")
               sr == spread_data["trit"]
           IN /\ (\A i \in DOMAIN bids : ~reachable(bids[i])) => sr.best_bid = None
              /\ sr.best_bid # None =>
                     \E i \in DOMAIN bids : reachable(bids[i]) /\ bids[i].price = sr.best_bid[1]
              /\ ((\E i \in DOMAIN bids : reachable(bids[i])) /\ sr.best_ask # None) =>
                     sr.best_bid # None
    /\ pc = "sold" =>
           LET after == buy_order_map["trit"]
           IN /\ \A i \in DOMAIN m_prev :
                     ~reachable(m_prev[i]) => after[i].volume = m_prev[i].volume
              /\ (\A i \in DOMAIN m_prev : ~reachable(m_prev[i])) => m_result = <<>>
              /\ \A i \in DOMAIN m_result :
                     \E k \in DOMAIN m_prev :
                         /\ reachable(m_prev[k])
                         /\ m_prev[k].price = m_result[i].price
                         /\ after[k].volume < m_prev[k].volume
              /\ \A k \in DOMAIN m_prev :
                     ( /\ reachable(m_prev[k])
                       /\ \A j \in 1..(k - 1) : ~reachable(m_prev[j])
                       /\ m_volume >= m_prev[k].min_volume
                       /\ m_volume <= m_prev[k].volume ) =>
                         m_result = <<[price |-> m_prev[k].price, volume |-> m_volume,
                                       market |-> TRUE]>>

\* behind an order whose location cannot be resolved, an order at the
\* station is the best bid and takes the sale
C12_Witness ==
    /\ pc = "sold"
    /\ Len(m_prev) = 2
    /\ m_prev[1].location_id = "citadel" /\ m_prev[1].price > m_prev[2].price
    /\ reachable(m_prev[2])
    /\ spread_data["trit"].best_bid = Some(m_prev[2].price)
    /\ Len(m_result) = 1 /\ m_result[1].price = m_prev[2].price
    /\ buy_order_map["trit"][1].volume = m_prev[1].volume

\* C13: division by zero is guarded: the aggregate return total_profit /
\* total_cost is not computed when the total cost of the cleaned list is 0,
\* as it is for the empty list; it is computed, with that cost as divisor,
\* when the cost is not 0.
C13_AggregateGuarded ==
    c_pc = "aggregated" =>
        /\ c_total[1].total_cost = SumField(c_result, "cost")
        /\ c_total[1].total_cost = 0 => c_total[1].total_return = None
        /\ c_total[1].total_cost # 0 =>
               c_total[1].total_return =
                   Some(Ratio(c_total[1].total_profit, c_total[1].total_cost))

\* the aggregate cell ran on an empty cleaned list and divided by 0
C13_DividedByZero ==
    /\ c_pc = "aggregated" /\ c_result = <<>>
    /\ c_total[1].total_cost = 0
    /\ c_total[1].total_return = Some(Ratio(0, 0))

\* the source purchase of portionSize cannot be filled from the sell orders left
source_short == attempt_buy_type_list(cur_type.portionSize, sell_order_list).fills = <<>>

\* material k of the map cannot be sold: its limit budget gives no amount,
\* or its buy orders left cannot take its volume
material_short(k) ==
    LET next_mat == cur_type.material_map[k]
        id == next_mat.materialTypeID
        volume == sell_volume_of(next_mat.quantity, config)
    IN IF above_threshold(id)
       THEN volume = 0 \/ limit_order_max[id] = 0
       ELSE attempt_sell_type_list(StationId, volume, buy_order_map[id]).fills = <<>>

\* C14: a round that fails for lack of liquidity, the source purchase not
\* filled or a material not sold, ends the attempt without error and adds
\* nothing to gross, cost, all_buy_orders and all_sell_orders; the attempt
\* returns the result of the k rounds committed before it, whose buy orders
\* hold k x portionSize units, and None if k = 0.
C14_FailedRoundAddsNothing ==
    [][ /\ ( /\ pc = "round"
             /\ source_short \/ \E k \in DOMAIN cur_type.material_map : material_short(k) ) =>
               /\ pc' = "report"
               /\ exit' \in {"no_source", "no_sale"}
               /\ UNCHANGED <<gross, cost, all_buy_orders, all_sell_orders, rounds>>
        /\ (pc = "report" /\ exit \in {"no_source", "no_sale"}) =>
               /\ pc' = "returned"
               /\ rounds = 0 => opp' = None
               /\ rounds > 0 =>
                      /\ opp' # None
                      /\ opp'[1].gross = gross /\ opp'[1].cost = cost
                      /\ SumVolume(opp'[1].buy_orders) =
                             rounds * cur_type.portionSize * VolScale
                      /\ \A id \in DOMAIN all_sell_orders :
                             SumVolume(opp'[1].sell_orders[id]) = SumVolume(all_sell_orders[id])
                      /\ SumVolume(all_buy_orders) = rounds * cur_type.portionSize * VolScale ]_vars

\* the third round bought its source, sold its first material and could not
\* sell the second; the Opportunity of the two rounds before it is returned
C14_Witness ==
    /\ pc = "returned" /\ exit = "no_sale" /\ rounds = 2
    /\ bought # <<>>
    /\ Len(cur_type.material_map) = 2
    /\ buy_order_map["trit"] # extract_buy_orders(cur_snapshot, "trit")
           \/ limit_order_max["trit"] # market_summary["trit"] * config.volume_limit
    /\ opp # None
    /\ SumVolume(opp[1].buy_orders) = 2 * cur_type.portionSize * VolScale

\* the calls of attempt_opportunity that returned an Opportunity
found_calls == SelectSeq(calls, LAMBDA c : c.found)

\* C15: find_opportunities takes the snapshots in time order and, for each,
\* calls attempt_opportunity once for every source type of the type map; its
\* list holds one entry for each call that returned an Opportunity and none
\* for the others, in the order of the calls, each with the time of its
\* snapshot and the name of its type, so in time order.
C15_OneEntryPerFoundCall ==
    /\ \A i, j \in DOMAIN order_book : i < j => order_book[i].time < order_book[j].time
    /\ \A n \in DOMAIN calls :
           /\ calls[n].snapshot = ((n - 1) \div Len(type_map)) + 1
           /\ calls[n].source_type = ((n - 1) % Len(type_map)) + 1
    /\ pc = "finished" => Len(calls) = Len(order_book) * Len(type_map)
    /\ pc \in {"call", "round", "report", "finished"} =>
           /\ Len(opportunities) = Len(found_calls)
           /\ \A i \in DOMAIN opportunities :
                  /\ opportunities[i].time = order_book[found_calls[i].snapshot].time
                  /\ opportunities[i].type = type_map[found_calls[i].source_type].typeName
                  /\ opportunities[i].profit > 0
    /\ \A i, j \in DOMAIN opportunities :
           i < j => opportunities[i].time <= opportunities[j].time

\* a scan that found an Opportunity for both types on the second snapshot
\* and none on the first
C15_Witness ==
    /\ pc = "finished" /\ run = 1
    /\ Len(calls) = 4
    /\ ~calls[1].found /\ ~calls[2].found /\ calls[3].found /\ calls[4].found
    /\ Len(opportunities) = 2
    /\ opportunities[1].type = "Ore" /\ opportunities[2].type = "Ice"
    /\ opportunities[1].time = SnapshotStep

\* the volume of the sell orders of the source type at the station
source_volume == SumVolume(extract_sell_orders(cur_snapshot, cur_type.typeID, StationId))

\* C16: attempt_opportunity terminates, for portionSize 0 too: a committed
\* round takes exactly portionSize units off the source sell orders at the
\* station, the committed rounds never take more than these orders hold, so
\* there are at most floor(volume / portionSize) of them, and the scan runs
\* to its end.
C16_Terminates ==
    <>( /\ pc = "finished"
        /\ rounds * cur_type.portionSize <= source_volume
        /\ cur_type.portionSize > 0 => rounds <= source_volume \div cur_type.portionSize
        /\ cur_type.portionSize = 0 => rounds = 0
        /\ SumVolume(all_buy_orders) = rounds * cur_type.portionSize * VolScale
        /\ SumVolume(sell_order_list) <= source_volume - rounds * cur_type.portionSize )

\* an attempt that committed as many rounds as the source orders allow
C16_Witness ==
    /\ pc = "finished"
    /\ cur_type.portionSize = 1
    /\ source_volume = 2 * BookVol
    /\ rounds = source_volume
    /\ exit = "no_source"

\* what the last matcher call took off order i of the list
taken(i) == m_prev[i].volume - m_list[i].volume

\* the volume the last matcher call still had to fill when it came to order i
RECURSIVE remaining_at(_)
remaining_at(i) == IF i = 1 THEN m_volume ELSE remaining_at(i - 1) - taken(i - 1)

\* the last matcher call came to order i
visited(i) == i = 1 \/ remaining_at(i) > 0

\* order i could be filled when the call came to it
fillable(i) ==
    /\ remaining_at(i) >= m_prev[i].min_volume
    /\ m_prev[i].volume > 0
    /\ m_side = "buy" => reachable(m_prev[i])

\* the orders the last matcher call took from, in list order
RECURSIVE taken_from(_)
taken_from(i) ==
    IF i = 0 THEN <<>>
    ELSE IF taken(i) > 0 THEN Append(taken_from(i - 1), i) ELSE taken_from(i - 1)

\* C17: a matcher, buying or selling, takes the orders in list order and
\* fills from an order only if, when it comes to it, the volume still to
\* fill is >= its min_volume and its volume is > 0; the amount is
\* min(remaining, volume of the order), so 0 < amount <= volume before the
\* fill, the order loses exactly that amount, the fills returned are these
\* amounts in list order, and no volume is negative after any calls.
C17_FillsInOrder ==
    m_calls > 0 =>
        /\ Len(m_list) = Len(m_prev)
        /\ \A i \in DOMAIN m_list :
               /\ m_list[i].volume >= 0
               /\ [m_list[i] EXCEPT !.volume = m_prev[i].volume] = m_prev[i]
               /\ IF visited(i) /\ fillable(i)
                  THEN /\ taken(i) = Min(remaining_at(i), m_prev[i].volume)
                       /\ taken(i) > 0
                  ELSE taken(i) = 0
        /\ m_result # <<>> =>
               LET from == taken_from(Len(m_list))
               IN /\ Len(m_result) = Len(from)
                  /\ \A k \in DOMAIN m_result :
                         /\ m_result[k] = [price |-> m_prev[from[k]].price,
                                           volume |-> taken(from[k]), market |-> TRUE]
                         /\ 0 < m_result[k].volume
                         /\ m_result[k].volume <= m_prev[from[k]].volume

\* a second purchase on a list whose first order the first purchase emptied:
\* it passes the empty order and fills from the next
C17_Witness ==
    /\ m_side = "sell" /\ m_calls = 2 /\ Len(m_prev) = 2
    /\ m_prev[1].volume = 0
    /\ m_prev[2].volume = MaxVol /\ m_list[2].volume = 1
    /\ m_result = <<[price |-> m_prev[2].price, volume |-> MaxVol - 1, market |-> TRUE]>>

\* the sell orders of the material at the station, in the order of the rows
asks_at_station(mat) ==
    SelectSeq(cur_snapshot.rows,
              LAMBDA o : o.type_id = mat /\ ~o.buy /\ o.location_id = StationId)

\* C18: spread_return gives the neutral record, spread_return 0 and no
\* best_bid and best_ask, when the material has no sell order at the station
\* itself or no buy order that passes the range check; otherwise best_ask is
\* the price of the first sell order at the station, best_bid the price of
\* the first buy order in list order that passes the range check, and
\* spread_return = (best_ask - best_bid) / best_bid.
C18_SpreadReturn ==
    pc \in {"sell", "sold"} =>
        LET sr == spread_data["trit"]
            asks == asks_at_station("trit")
            bids == bids_of("trit")
            in_range == {i \in DOMAIN bids : reachable(bids[i])}
            first == CHOOSE i \in in_range : \A j \in in_range : i <= j
        IN IF asks = <<>> \/ in_range = {}
           THEN /\ sr.spread_return = Ratio(0, 1)
                /\ sr.best_bid = None /\ sr.best_ask = None
           ELSE /\ sr.best_ask = Some(asks[1].price)
                /\ sr.best_bid = Some(bids[first].price)
                /\ sr.spread_return.num = asks[1].price - bids[first].price
                /\ sr.spread_return.den = bids[first].price
                /\ \A i \in DOMAIN asks : asks[1].price <= asks[i].price
                /\ \A i \in in_range : bids[first].price >= bids[i].price

\* a cheaper sell order at another station and a higher bid out of range are
\* both passed over
C18_Witness ==
    /\ pc = "sell"
    /\ Len(cur_snapshot.rows) = 4
    /\ cur_snapshot.rows[1].location_id = "remote" /\ cur_snapshot.rows[1].price = 102
    /\ cur_snapshot.rows[2].location_id = StationId /\ cur_snapshot.rows[2].price = 198
    /\ cur_snapshot.rows[3].location_id = "remote" /\ cur_snapshot.rows[3].price = 193
    /\ cur_snapshot.rows[4].location_id = StationId /\ cur_snapshot.rows[4].price = 100
    /\ spread_data["trit"] =
           [spread_return |-> Ratio(98, 100), best_bid |-> Some(100), best_ask |-> Some(198)]

\* the sum of F over the materials of the map from the k-th on
RECURSIVE SumOverMaterials(_, _)
SumOverMaterials(F(_), k) ==
    IF k > Len(cur_type.material_map) THEN 0
    ELSE F(cur_type.material_map[k].materialTypeID) + SumOverMaterials(F, k + 1)

\* the value sold of a material in the round, in 1/VolScale ISK
sold_value(id) == SumValue(sell_orders[id])

\* what a material adds to the gross of the round, in 1/(VolScale*RateScale) ISK
material_gross(id) ==
    IF above_threshold(id)
    THEN sold_value(id) * (RateScale - config.tax_rate - config.broker_fee)
    ELSE sold_value(id) * (RateScale - config.tax_rate)

\* the round came to the profit test of line 487
at_profit_test ==
    /\ pc \in {"round", "report", "returned"}
    /\ (exit = "none" /\ rounds > 0) \/ exit = "no_profit"

\* C19: in a round that comes to the profit test, current_cost is the sum
\* of price x volume of the source bought plus stationTax x the value sold
\* of all the materials, and current_gross is the sum over the materials of
\* the value sold x (1 - taxRate - brokerFee) for a material sold by limit
\* order and x (1 - taxRate) for one sold to the market.
C19_RoundArithmetic ==
    at_profit_test =>
        /\ DOMAIN sell_orders = material_ids(cur_type)
        /\ current_cost = RateScale * SumValue(bought)
                              + config.station_tax * SumOverMaterials(sold_value, 1)
        /\ current_gross = SumOverMaterials(material_gross, 1)
        /\ SumValue(bought) > 0

\* a round that sold one material by limit order and the other to the market
\* and made no profit
C19_Witness ==
    /\ pc = "report" /\ exit = "no_profit"
    /\ Len(cur_type.material_map) = 2
    /\ above_threshold("trit") /\ ~above_threshold("pyer")
    /\ limit_fills(sell_orders["trit"]) /\ ~limit_fills(sell_orders["pyer"])
    /\ current_gross > 0

\* the materials of the map that sell by limit order and have no budget left
limit_exhausted == {id \in material_ids(cur_type) : above_threshold(id) /\ limit_order_max[id] = 0}

\* C20: by limit order a sale is recorded only out of a budget left > 0, as
\* one fill at the best_ask worked out before the loop, with market = false;
\* with a budget left of 0 the material has no fill, the round is not
\* committed and the attempt ends, and the buy orders of the material are
\* not sold into instead.
C20_LimitOnlyWithBudget ==
    /\ [](pc \in {"round", "report", "returned"} =>
              \A id \in DOMAIN all_sell_orders :
                  /\ above_threshold(id) => limit_fills(all_sell_orders[id])
                  /\ (id \in DOMAIN sell_orders /\ above_threshold(id)) =>
                         /\ Len(sell_orders[id]) = 1
                         /\ sell_orders[id][1].market = FALSE
                         /\ sell_orders[id][1].price = spread_data[id].best_ask[1]
                         /\ sell_orders[id][1].volume > 0
                         /\ sell_orders[id][1].volume + limit_order_max[id]
                                <= market_summary[id] * config.volume_limit)
    /\ [][ (pc = "round" /\ limit_exhausted # {}) =>
               /\ pc' = "report"
               /\ exit' \in {"no_source", "no_sale"}
               /\ UNCHANGED <<gross, cost, all_buy_orders, all_sell_orders, rounds>>
               /\ \A id \in limit_exhausted :
                      /\ buy_order_map'[id] = buy_order_map[id]
                      /\ limit_order_max'[id] = 0
               /\ exit' = "no_sale" => sell_orders' = <<>> ]_vars

\* the budget of a material was used up by the round before; the next round
\* bought its source and ended, the buy orders of the material untouched
C20_Witness ==
    /\ pc = "report" /\ exit = "no_sale" /\ rounds >= 1
    /\ bought # <<>>
    /\ above_threshold("trit") /\ limit_order_max["trit"] = 0
    /\ \E i \in DOMAIN buy_order_map["trit"] :
           reachable(buy_order_map["trit"][i]) /\ buy_order_map["trit"][i].volume > 0
    /\ buy_order_map["trit"] = extract_buy_orders(cur_snapshot, "trit")

\* the sum of a field over the committed rounds
SumCommitted(field) ==
    LET RECURSIVE S(_)
        S(i) == IF i = 0 THEN 0 ELSE committed[i][field] + S(i - 1)
    IN S(Len(committed))

\* C21: an Opportunity aggregates exactly its committed rounds: gross and
\* cost are the sums of current_gross and current_cost over them, buy_orders
\* hold portionSize x (number of committed rounds) units, and the
\* sell_orders of every material sold to the market hold floor(quantity x
\* efficiency) x (number of committed rounds) units.
C21_AggregatesCommittedRounds ==
    (pc = "returned" /\ opp # None) =>
        /\ Len(committed) = rounds
        /\ opp[1].gross = SumCommitted("gross")
        /\ opp[1].cost = SumCommitted("cost")
        /\ SumVolume(opp[1].buy_orders) = cur_type.portionSize * rounds * VolScale
        /\ DOMAIN opp[1].sell_orders = material_ids(cur_type)
        /\ \A k \in DOMAIN cur_type.material_map :
               LET next_mat == cur_type.material_map[k]
               IN ~above_threshold(next_mat.materialTypeID) =>
                      SumVolume(opp[1].sell_orders[next_mat.materialTypeID]) =
                          required_centi(next_mat) * rounds

\* an Opportunity of three rounds that bought at one price and sold a
\* material to the market at two
C21_Witness ==
    /\ pc = "returned" /\ opp # None /\ rounds = 3
    /\ Len(opp[1].buy_orders) = 1
    /\ ~above_threshold("trit")
    /\ Len(opp[1].sell_orders["trit"]) = 2

\* the volume of the orders of a list at a price
volume_at(list, p) == SumVolume(SelectSeq(list, LAMBDA o : o.price = p))

\* the compressed list has one entry for every price of the list, with the
\* volume of the list at that price
compressed_of(short, list) ==
    /\ {short[i].price : i \in DOMAIN short} = {list[i].price : i \in DOMAIN list}
    /\ \A i, j \in DOMAIN short : i # j => short[i].price # short[j].price
    /\ \A i \in DOMAIN short : short[i].volume = volume_at(list, short[i].price)
    /\ SumVolume(short) = SumVolume(list)
    /\ SumValue(short) = SumValue(list)

\* C22: compress_order_list gives one entry for every distinct price of its
\* input, with the sum of the volumes at that price, so that volume and
\* value are kept, sorted low price to high by default and high to low with
\* ascending=False: the buy_orders of an Opportunity are ascending, the
\* sell_orders of each material descending.
C22_CompressedByPrice ==
    (pc = "returned" /\ opp # None) =>
        /\ compressed_of(opp[1].buy_orders, all_buy_orders)
        /\ \A i, j \in DOMAIN opp[1].buy_orders :
               i < j => opp[1].buy_orders[i].price < opp[1].buy_orders[j].price
        /\ \A id \in DOMAIN all_sell_orders :
               /\ compressed_of(opp[1].sell_orders[id], all_sell_orders[id])
               /\ \A i, j \in DOMAIN opp[1].sell_orders[id] :
                      i < j => opp[1].sell_orders[id][i].price
                                   > opp[1].sell_orders[id][j].price

\* two rounds that bought at two prices and sold a material at one
C22_Witness ==
    /\ pc = "returned" /\ opp # None
    /\ Len(opp[1].buy_orders) = 2
    /\ opp[1].buy_orders[1].price < opp[1].buy_orders[2].price
    /\ Len(all_sell_orders["trit"]) = 2 /\ Len(opp[1].sell_orders["trit"]) = 1

\* the opportunity of the type of opportunity k that comes last before it
previous_same_type(k) ==
    CHOOSE j \in earlier_same_type(k) : \A i \in earlier_same_type(k) : i <= j

\* C23: clean_opportunities retains the first opportunity of every source
\* type and every opportunity more than 5 minutes after the one of its type
\* before it, the start of a new run; a gap of exactly 5 minutes starts no
\* new run and the later opportunity is dropped.
C23_FirstOfRunRetained ==
    c_pc \in {"done", "aggregated"} =>
        \A k \in DOMAIN c_opps :
            /\ earlier_same_type(k) = {} => retained(c_opps[k])
            /\ earlier_same_type(k) # {} =>
                   LET gap == c_opps[k].time - c_opps[previous_same_type(k)].time
                   IN /\ gap > CleanGap => retained(c_opps[k])
                      /\ gap = CleanGap => ~retained(c_opps[k])

\* of the opportunities of a type at 0, 5 and 11 those at 0 and 11 are
\* retained, next to the first of the other type
C23_Witness ==
    /\ c_pc = "done"
    /\ times_of(c_opps, "Ore") = <<0, CleanGap, 2 * CleanGap + 1>>
    /\ times_of(c_result, "Ore") = <<0, 2 * CleanGap + 1>>
    /\ Len(times_of(c_opps, "Ice")) = 1
    /\ Len(c_result) = 3

\* the list in time order, the opportunities of one time in the order of
\* their types
RECURSIVE by_time(_)
by_time(opps) ==
    IF opps = <<>> THEN <<>>
    ELSE LET first == CHOOSE i \in DOMAIN opps :
                          \A j \in DOMAIN opps :
                              \/ opps[i].time < opps[j].time
                              \/ /\ opps[i].time = opps[j].time
                                 /\ type_rank(opps[i].type) <= type_rank(opps[j].type)
         IN <<opps[first]>> \o
                by_time(SelectSeq(opps, LAMBDA o : o # opps[first]))

\* the opportunities of a list, as a set
set_of(opps) == {opps[i] : i \in DOMAIN opps}

C25_FailedCallAtomic ==
    (m_calls > 0 /\ m_result = <<>>) => m_list = m_prev

\* C25: a matcher call that fails is not atomic with respect to the order
\* list: when the empty list is returned, every order the walk could fill
\* from when it came to it is left with volume 0, the volume it lost being
\* less than the volume asked for, and only the other orders have the
\* volume they had before the call.
C25_FailedCallLeavesDecrements ==
    (m_calls > 0 /\ m_result = <<>>) =>
        /\ Len(m_list) = Len(m_prev)
        /\ \A i \in DOMAIN m_list :
               /\ fillable(i) => m_list[i].volume = 0 /\ taken(i) > 0
               /\ ~fillable(i) => m_list[i].volume = m_prev[i].volume
        /\ m_volume > 0 =>
               remaining_at(Len(m_list) + 1) > 0

\* a sale of 3 into buy orders of 1 and 1 within reach: it fails, and both
\* orders are left empty
C25_Witness ==
    /\ m_side = "buy" /\ m_calls = 1 /\ m_volume = 3 /\ m_result = <<>>
    /\ Len(m_prev) = 2
    /\ m_prev[1].volume = 1 /\ m_prev[2].volume = 1
    /\ m_list[1].volume = 0 /\ m_list[2].volume = 0

\* rates on which the threshold is tried, in 1/RateScale
RateGrid == {0, 1, TaxRate, BrokerRate, 500, RateScale - TaxRate - 1}

\* the spread record of the material is the neutral one for a reason the
\* snapshot shows: no ask at the station, or no bid within reach
no_ask(id) == extract_sell_orders(cur_snapshot, id, StationId) = <<>>
no_bid(id) == \A i \in DOMAIN bids_of(id) : ~reachable(bids_of(id)[i])

\* C26: with brokerFee >= 0 and taxRate + brokerFee < 1 the neutral spread
\* record (no ask at the station, or no bid within reach) never selects the
\* limit mode: its material is sold through attempt_sell_type_list only and
\* its limit budget is never drawn on, and every fill by limit order the
\* attempt records is at the best ask of its material, which is defined.
C26_NeutralNeverLimit ==
    /\ \A tr \in RateGrid, bf \in RateGrid :
           (bf >= 0 /\ tr + bf < RateScale) =>
               ~limit_sells(neutral_spread.spread_return,
                            limit_threshold([notebook_config EXCEPT !.tax_rate = tr,
                                                                    !.broker_fee = bf]))
    /\ pc \in {"round", "report", "returned"} =>
           \A id \in DOMAIN spread_data :
               /\ (no_ask(id) \/ no_bid(id)) <=> spread_data[id] = neutral_spread
               /\ spread_data[id] = neutral_spread =>
                      /\ ~limit_sells(spread_data[id].spread_return, limit_threshold(config))
                      /\ limit_order_max[id] = limit_budget(id, market_summary, config)
                      /\ \A i \in DOMAIN all_sell_orders[id] : all_sell_orders[id][i].market
                      /\ id \in DOMAIN sell_orders =>
                             \A i \in DOMAIN sell_orders[id] : sell_orders[id][i].market
               /\ \A list \in {all_sell_orders[id]}
                          \cup {sell_orders[d] : d \in DOMAIN sell_orders \cap {id}} :
                      \A i \in DOMAIN list :
                          ~list[i].market =>
                              /\ spread_data[id].best_ask # None
                              /\ list[i].price = spread_data[id].best_ask[1]

\* a material without an ask at the station and with a bid within reach:
\* a round sold it to the market and was committed
C26_Witness ==
    /\ RoundCommitted
    /\ no_ask("trit") /\ ~no_bid("trit")
    /\ spread_data["trit"] = neutral_spread
    /\ Len(all_sell_orders["trit"]) > 0
    /\ \A i \in DOMAIN all_sell_orders["trit"] : all_sell_orders["trit"][i].market

\* the material map of the source type is empty, or a material of it has to
\* be sold at volume floor(quantity x efficiency) = 0
nothing_to_sell ==
    \/ cur_type.material_map = <<>>
    \/ \E k \in DOMAIN cur_type.material_map :
           sell_volume_of(cur_type.material_map[k].quantity, config) = 0

\* C27: when the material map of the source type is empty, or a material
\* of it has floor(quantity x efficiency) = 0, attempt_opportunity returns
\* None on every snapshot: no round is committed, the first round ends the
\* loop, on the purchase or on an empty sale, and a volume of 0 gets the
\* empty list from attempt_sell_type_list and from the limit branch.
C27_NothingToSellNoOpportunity ==
    /\ \A id \in DOMAIN buy_order_map :
           attempt_sell_type_list(StationId, 0, buy_order_map[id]).fills = <<>>
    /\ \A id \in DOMAIN limit_order_max, ask \in AskPrices :
           limit_sold(limit_amount(0, limit_order_max[id]), ask) = <<>>
    /\ (pc \in {"round", "report", "returned"} /\ nothing_to_sell) =>
           /\ rounds = 0 /\ committed = <<>> /\ opp = None
           /\ all_buy_orders = <<>>
           /\ pc = "report" => exit \in {"no_source", "no_sale"}
           /\ pc = "returned" => opportunities = <<>>

\* a source bought at 19 with bids at 193 for its material, of which
\* quantity 1 gives a volume of 0 to sell: the attempt returned None on the
\* empty sale
C27_Witness ==
    /\ pc = "returned" /\ exit = "no_sale" /\ opp = None
    /\ Len(cur_type.material_map) = 1
    /\ cur_type.material_map[1].quantity = 1
    /\ sell_volume_of(1, config) = 0
    /\ Len(bought) > 0 /\ bought[1].price = 19
    /\ \E i \in DOMAIN bids_of("trit") :
           reachable(bids_of("trit")[i]) /\ bids_of("trit")[i].price = 193

\* the opportunities of one type of a list, in list order
of_type(opps, next_type) == SelectSeq(opps, LAMBDA o : o.type = next_type)

\* list a is list b with some of its entries left out, the others in the
\* order they have in b
RECURSIVE sub_list(_, _)
sub_list(a, b) ==
    IF a = <<>> THEN TRUE
    ELSE IF b = <<>> THEN FALSE
    ELSE IF a[1] = b[1] THEN sub_list(Tail(a), Tail(b))
    ELSE sub_list(a, Tail(b))

\* C28: on a list in time order with at most one opportunity per time and
\* type, clean_opportunities applied to its own result gives that result
\* again; the result is a sub-list of the input in the same relative order;
\* and what is retained of a type is what clean_opportunities retains of the
\* opportunities of that type alone.
C28_CleanIdempotent ==
    c_pc \in {"done", "aggregated"} =>
        /\ clean_opportunities(c_result) = c_result
        /\ sub_list(c_result, c_opps)
        /\ \A k \in DOMAIN TypeNames :
               of_type(c_result, TypeNames[k])
                   = clean_opportunities(of_type(c_opps, TypeNames[k]))

\* Ore at 0 and 6 with Ice at 3 and 7 between and after: the Ice at 7 is
\* dropped for the Ice at 3, the Ore at 6 is retained though 3 minutes after
\* the Ice
C28_Witness ==
    /\ c_pc = "done"
    /\ Len(c_opps) = 4
    /\ times_of(c_opps, "Ore") = <<0, 6>> /\ times_of(c_opps, "Ice") = <<3, 7>>
    /\ c_opps[2].type = "Ice" /\ c_opps[3].type = "Ore"
    /\ times_of(c_result, "Ore") = <<0, 6>> /\ times_of(c_result, "Ice") = <<3>>
    /\ clean_opportunities(c_result) = c_result

====
